---- MODULE Spec2Model ----
(***************************************************************************)
(* Sliding-window-log rate limiter (internal/limitter/limiter.go) over a   *)
(* Redis sorted set, as called by the rate-limit middleware.               *)
(*                                                                         *)
(* Time is counted in ticks.  Ulp, Timeout and Margin are the spacing of   *)
(* float64 values at the magnitude of UnixNano timestamps, the 5 s context *)
(* deadline of the middleware and the one-minute expiry margin, scaled to  *)
(* ticks with their order kept (Timeout < Margin); windows as long as the  *)
(* deadline and longer ones are both covered.  Second is the length of a   *)
(* second in the headers of the middleware.  A call that starts            *)
(* after another has returned reads the same clock value (a coarse clock)  *)
(* or one more than a float64 spacing later (a call takes far longer than  *)
(* the 256 ns between float64 values); calls in flight together may read   *)
(* any values.                                                             *)
(***************************************************************************)
EXTENDS Integers, Sequences, FiniteSets, TLC

\* ------------------------------------------------------------ bounds
MaxTime == 9
MaxChecks == 4
MaxConcChecks == 2
MaxFaults == 1
MaxRequests == 2
MaxLimit == 2
MinWindow == 3
MaxWindow == 4

\* ------------------------------------------------- scaled program facts
Ulp == 2
Timeout == 3
Margin == 4
Second == 2
DefaultMaxRequests == 100
\* time.Minute, the length that Margin has.
DefaultWindowSize == Margin

\* The least distance of two different clock readings of consecutive calls.
MinGap == Ulp + 1

Procs == {"p1", "p2"}
Keys == {"X", "Y"}
\* The key that the checks of one client go to.
OneKey == {"X"}
Limits == 1..MaxLimit
Windows == MinWindow..MaxWindow
NoExpiry == -1

VARIABLES
    clock,      \* time.Now() / the store's clock, in ticks
    zset,       \* zset[k]: the sorted set of key k, a set of [member, score]
    expireAt,   \* expireAt[k]: the instant key k expires, or NoExpiry
    limit,      \* the limit passed to every call (config.MaxRequests)
    window,     \* the window passed to every call (config.WindowSize)
    call,       \* call[p]: the position and locals of IsAllowed in process p
    hist,       \* the calls that have returned, in order of return
    faults,     \* the store failures so far
    http,       \* http[p]: the request the middleware serves in process p
    config      \* the RateLimitConfig handed to RateLimitMiddleware

vars == <<clock, zset, expireAt, limit, window, call, hist, faults, http,
          config>>

\* ------------------------------------------------------- conversions

\* float64(n) for an int64 n of the magnitude of a UnixNano timestamp:
\* the nearest multiple of Ulp, a tie going to the even multiple.
Float64(n) ==
    LET q == n \div Ulp
        r == n % Ulp
    IN  IF 2 * r < Ulp THEN q * Ulp
        ELSE IF 2 * r > Ulp THEN (q + 1) * Ulp
        ELSE IF q % 2 = 0 THEN q * Ulp
        ELSE (q + 1) * Ulp

\* ----------------------------------------------------- configuration

\* The defaults put in also for negative values.
WithDefaultsForNonPositive(cfg) ==
    [MaxRequests |-> IF cfg.MaxRequests <= 0 THEN DefaultMaxRequests
                     ELSE cfg.MaxRequests,
     WindowSize |-> IF cfg.WindowSize <= 0 THEN DefaultWindowSize
                    ELSE cfg.WindowSize]

\* ratelimit.go 34-39: RateLimitMiddleware fills in the defaults of its
\* copy of the configuration before it builds the handler.
WithDefaults(cfg) ==
    [MaxRequests |-> IF cfg.MaxRequests = 0 THEN DefaultMaxRequests
                     ELSE cfg.MaxRequests,
     WindowSize |-> IF cfg.WindowSize = 0 THEN DefaultWindowSize
                    ELSE cfg.WindowSize]

\* fmt.Sprintf("%.0f", f) for an integral float64 f: its decimal digits.
FormatFloat(f) == ToString(f)

\* ------------------------------------------------------ store commands

\* ZREMRANGEBYSCORE with the two ends of the range handed over swapped.
ZRemRangeSwapped(zs, min, max) ==
    {e \in zs : ~(max <= e.score /\ e.score <= min)}

\* ZREMRANGEBYSCORE with the upper end exclusive, as "(max" would ask for.
ZRemRangeExclusive(zs, min, max) ==
    {e \in zs : ~(min <= e.score /\ e.score < max)}

\* ZREMRANGEBYSCORE key min max: both ends of the range are inclusive.
ZRemRangeByScore(zs, min, max) ==
    {e \in zs : ~(min <= e.score /\ e.score <= max)}

\* ZADD key score member: a member already in the set keeps its place and
\* takes the score; the set grows only by a new member.
ZAdd(zs, score, member) ==
    {e \in zs : e.member # member} \cup {[member |-> member, score |-> score]}

\* ZCARD key.
ZCard(zs) == Cardinality(zs)

\* EXPIRE key ttl at instant t: no effect on a key that does not exist.
Expire(zs, old, t, ttl) == IF zs = {} THEN old ELSE t + ttl

\* A sorted set that becomes empty is deleted with its expiry.
KeepExpiry(zs, old) == IF zs = {} THEN NoExpiry ELSE old

\* --------------------------------------------------------- the decision

\* Decide without the clamp of lines 77-79.
DecideNoClamp(count, lim, win, now) ==
    [Allowed |-> count <= lim,
     Remaining |-> lim - count,
     ResetTime |-> now + win,
     RetryAfter |-> IF count > lim THEN win ELSE 0]

\* The decision with the retry delay given from count >= limit on.
DecideRetryAtLimit(count, lim, win, now) ==
    LET remaining0 == lim - count
        remaining == IF remaining0 < 0 THEN 0 ELSE remaining0
        retryAfter == IF count >= lim THEN win ELSE 0
    IN  [Allowed |-> count <= lim,
         Remaining |-> remaining,
         ResetTime |-> now + win,
         RetryAfter |-> retryAfter]

\* Decide with "<" for "<=" in line 91.
DecideStrict(count, lim, win, now) ==
    [Allowed |-> count < lim,
     Remaining |-> IF lim - count < 0 THEN 0 ELSE lim - count,
     ResetTime |-> now + win,
     RetryAfter |-> IF count > lim THEN win ELSE 0]

\* The decision with a ResetTime one tick short of now + window.
DecideResetEarly(count, lim, win, now) ==
    [Allowed |-> count <= lim,
     Remaining |-> IF lim - count < 0 THEN 0 ELSE lim - count,
     ResetTime |-> now + win - 1,
     RetryAfter |-> IF count > lim THEN win ELSE 0]

\* The decision of an engine that takes a limit of zero or less for "no
\* limit" and admits.
DecideUnlimited(count, lim, win, now) ==
    IF lim <= 0
    THEN [Allowed |-> TRUE, Remaining |-> 0, ResetTime |-> now + win,
          RetryAfter |-> 0]
    ELSE [Allowed |-> count <= lim,
          Remaining |-> IF lim - count < 0 THEN 0 ELSE lim - count,
          ResetTime |-> now + win,
          RetryAfter |-> IF count > lim THEN win ELSE 0]

\* limiter.go 75-95.
Decide(count, lim, win, now) ==
    LET remaining0 == lim - count
        remaining == IF remaining0 < 0 THEN 0 ELSE remaining0
        retryAfter == IF count > lim THEN win ELSE 0
    IN  [Allowed |-> count <= lim,
         Remaining |-> remaining,
         ResetTime |-> now + win,
         RetryAfter |-> retryAfter]

\* A command as the store saw it: its name, the connection it came over
\* (the client itself or the pipeline) and whether it was answered.
Cmd(name, via, ok) == [cmd |-> name, via |-> via, ok |-> ok]

\* time.Time{}, the zero time the adapter returns with an error.
ZeroTime == 0

\* What limiter.Allow hands to the middleware when nothing was asked.
NoAnswer == [allowed |-> FALSE, remaining |-> 0, resetTime |-> ZeroTime,
             err |-> FALSE]

\* A goroutine of the HTTP server that has served no request yet.  Of a
\* request it keeps: the middleware it went through ("http" for
\* middleware.RateLimitMiddleware, "gin" for rateLimitMiddleware), what
\* SkipFunc and KeyFunc gave, how often the limiter, the next handler and
\* the limit-exceeded handler were called, the status the middleware wrote
\* (0 for none), the headers it set, what limiter.Allow returned (got) and
\* the key, limit and window it was called with (args).
\* The arguments of limiter.Allow when it was not called.
NoArgs == [key |-> "", limit |-> 0, window |-> 0]

NoRequest == [pc |-> "none", mw |-> "http", skip |-> FALSE, key |-> "",
              allowCalls |-> 0, nextCalls |-> 0, exceededCalls |-> 0,
              status |-> 0, headers |-> {}, got |-> NoAnswer,
              args |-> NoArgs]

Idle == [pc |-> "idle", key |-> "X", now |-> 0, windowStart |-> 0,
         removed |-> 0, added |-> 0, count |-> 0, intruded |-> FALSE,
         cmds |-> <<>>]

Init ==
    /\ clock = 0
    /\ zset = [k \in Keys |-> {}]
    /\ expireAt = [k \in Keys |-> NoExpiry]
    /\ limit \in Limits
    /\ window \in Windows
    /\ call = [p \in Procs |-> Idle]
    /\ hist = <<>>
    /\ faults = 0
    /\ http = [p \in Procs |-> NoRequest]
    /\ config = [MaxRequests |-> limit, WindowSize |-> window]

InFlight == {p \in Procs : call[p].pc # "idle"}

\* The clock advances; a key whose expiry is reached is deleted.  A call
\* has returned, with a decision or an error, when its deadline passes.
Tick ==
    /\ clock < MaxTime
    /\ \A p \in InFlight : clock + 1 <= call[p].now + Timeout
    /\ clock' = clock + 1
    /\ zset' = [k \in Keys |->
                 IF expireAt[k] # NoExpiry /\ expireAt[k] <= clock + 1
                 THEN {} ELSE zset[k]]
    /\ expireAt' = [k \in Keys |->
                 IF expireAt[k] # NoExpiry /\ expireAt[k] <= clock + 1
                 THEN NoExpiry ELSE expireAt[k]]
    /\ UNCHANGED <<limit, window, call, hist, faults, http, config>>

\* IsAllowed, lines 45-58: the timestamps are taken and the three pipeline
\* commands are queued locally.
Begin(p, k) ==
    /\ call[p].pc = "idle"
    /\ \A i \in 1..Len(hist) :
         clock = hist[i].now \/ clock >= hist[i].now + MinGap
    /\ call' = [call EXCEPT ![p] =
                 [Idle EXCEPT !.pc = "expire", !.key = k, !.now = clock,
                              !.windowStart = clock - window]]
    /\ UNCHANGED <<clock, zset, expireAt, limit, window, hist, faults, http, config>>

\* Line 61: r.client.Expire is sent on the client itself, ahead of the
\* pipeline; its result is dropped.
DoExpire(p) ==
    /\ call[p].pc = "expire"
    /\ LET k == call[p].key IN
         expireAt' = [expireAt EXCEPT
                        ![k] = Expire(zset[k], expireAt[k], clock, window + Margin)]
    /\ call' = [call EXCEPT ![p].pc = "zrem",
                            ![p].cmds = Append(@, Cmd("EXPIRE", "client", TRUE))]
    /\ UNCHANGED <<clock, zset, limit, window, hist, faults, http, config>>

\* Line 61, the command failing: the error is not looked at.
ExpireFails(p) ==
    /\ call[p].pc = "expire"
    /\ faults < MaxFaults
    /\ faults' = faults + 1
    /\ call' = [call EXCEPT ![p].pc = "zrem",
                            ![p].cmds = Append(@, Cmd("EXPIRE", "client", FALSE))]
    /\ UNCHANGED <<clock, zset, expireAt, limit, window, hist, http, config>>

\* Line 52, executed by the store.
DoZRem(p) ==
    /\ call[p].pc = "zrem"
    /\ LET k == call[p].key
           zs == ZRemRangeByScore(zset[k], 0, Float64(call[p].windowStart))
       IN  /\ zset' = [zset EXCEPT ![k] = zs]
           /\ expireAt' = [expireAt EXCEPT ![k] = KeepExpiry(zs, expireAt[k])]
           /\ call' = [q \in Procs |->
                 IF q = p
                 THEN [call[p] EXCEPT !.pc = "zadd",
                          !.removed = Cardinality(zset[k]) - Cardinality(zs),
                          !.cmds = Append(@, Cmd("ZREMRANGEBYSCORE", "pipeline", TRUE))]
                 ELSE IF call[q].pc = "zcard" /\ call[q].key = k
                      THEN [call[q] EXCEPT !.intruded = TRUE]
                      ELSE call[q]]
    /\ UNCHANGED <<clock, limit, window, hist, faults, http, config>>

\* Line 55, executed by the store.
DoZAdd(p) ==
    /\ call[p].pc = "zadd"
    /\ LET k == call[p].key
           score == Float64(call[p].now)
           zs == ZAdd(zset[k], score, FormatFloat(score))
       IN  /\ zset' = [zset EXCEPT ![k] = zs]
           /\ call' = [call EXCEPT ![p].pc = "zcard",
                          ![p].added = Cardinality(zs) - Cardinality(zset[k]),
                          ![p].cmds = Append(@, Cmd("ZADD", "pipeline", TRUE))]
    /\ UNCHANGED <<clock, expireAt, limit, window, hist, faults, http, config>>

\* The count taken as if it ran ahead of the insert (count-then-insert).
DoZCardBeforeInsert(p) ==
    /\ call[p].pc = "zcard"
    /\ call' = [call EXCEPT ![p].pc = "reply",
                            ![p].count = ZCard(zset[call[p].key]) - call[p].added,
                            ![p].cmds = Append(@, Cmd("ZCARD", "pipeline", TRUE))]
    /\ UNCHANGED <<clock, zset, expireAt, limit, window, hist, faults, http, config>>

\* The count taken over the logs of all keys (the key not looked at).
DoZCardAllKeys(p) ==
    /\ call[p].pc = "zcard"
    /\ call' = [call EXCEPT ![p].pc = "reply",
                            ![p].count = ZCard(UNION {zset[k] : k \in Keys}),
                            ![p].cmds = Append(@, Cmd("ZCARD", "pipeline", TRUE))]
    /\ UNCHANGED <<clock, zset, expireAt, limit, window, hist, faults, http, config>>

\* Line 58, executed by the store.
DoZCard(p) ==
    /\ call[p].pc = "zcard"
    /\ call' = [call EXCEPT ![p].pc = "reply",
                            ![p].count = ZCard(zset[call[p].key]),
                            ![p].cmds = Append(@, Cmd("ZCARD", "pipeline", TRUE))]
    /\ UNCHANGED <<clock, zset, expireAt, limit, window, hist, faults, http, config>>

\* What a returned call leaves in the history: its timestamp, the count it
\* read and the (*RateLimitResult, error) pair it returned.
Returned(c, res) ==
    [key |-> c.key, now |-> c.now, count |-> c.count,
     intruded |-> c.intruded, err |-> FALSE, res |-> res]

NilResult == [Allowed |-> FALSE, Remaining |-> 0, ResetTime |-> 0, RetryAfter |-> 0]

Failed(c) ==
    [key |-> c.key, now |-> c.now, count |-> 0,
     intruded |-> FALSE, err |-> TRUE, res |-> NilResult]

\* Lines 64-95: Exec answered without error; the decision is returned.
Return(p) ==
    /\ call[p].pc = "reply"
    /\ hist' = Append(hist, Returned(call[p],
                   Decide(call[p].count, limit, window, call[p].now)))
    /\ call' = [call EXCEPT ![p] = Idle]
    /\ UNCHANGED <<clock, zset, expireAt, limit, window, faults, http, config>>

\* A failed batch sent once more instead of being reported.
FailRetry(p) ==
    /\ call[p].pc \in {"zrem", "zadd", "zcard", "reply"}
    /\ faults < MaxFaults
    /\ faults' = faults + 1
    /\ call' = [call EXCEPT ![p].pc = "zrem"]
    /\ UNCHANGED <<clock, zset, expireAt, limit, window, hist, http, config>>

\* A failed batch answered with a decision guessed from what was read.
FailGuess(p) ==
    /\ call[p].pc \in {"zrem", "zadd", "zcard", "reply"}
    /\ faults < MaxFaults
    /\ faults' = faults + 1
    /\ hist' = Append(hist, Returned(call[p],
                   Decide(call[p].count, limit, window, call[p].now)))
    /\ call' = [call EXCEPT ![p] = Idle]
    /\ UNCHANGED <<clock, zset, expireAt, limit, window, http, config>>

\* Lines 64-67 and 70-73: Exec (or the count) reports an error, at whatever
\* point of the batch the failure or the deadline struck.
Fail(p) ==
    /\ call[p].pc \in {"zrem", "zadd", "zcard", "reply"}
    /\ faults < MaxFaults
    /\ faults' = faults + 1
    /\ hist' = Append(hist, Failed(call[p]))
    /\ call' = [call EXCEPT ![p] = Idle]
    /\ UNCHANGED <<clock, zset, expireAt, limit, window, http, config>>

Step(p) ==
    \/ DoExpire(p)
    \/ ExpireFails(p)
    \/ DoZRem(p)
    \/ DoZAdd(p)
    \/ DoZCard(p)
    \/ Return(p)
    \/ Fail(p)

\* One call at a time: a call begins only when none is in flight.
SerialBegin(p, k) ==
    /\ InFlight = {}
    /\ p = "p1"
    /\ Len(hist) < MaxChecks
    /\ Begin(p, k)

Next ==
    \/ Tick
    \/ \E p \in Procs, k \in OneKey : SerialBegin(p, k)
    \/ \E p \in Procs : Step(p)

Spec == Init /\ [][Next]_vars

\* Calls from several goroutines or processes, their store commands
\* interleaved (the pipeline is not a transaction).
ConcBegin(p, k) ==
    /\ Len(hist) + Cardinality(InFlight) < MaxConcChecks
    /\ Begin(p, k)

NextConc ==
    \/ Tick
    \/ \E p \in Procs, k \in OneKey : ConcBegin(p, k)
    \/ \E p \in Procs : Step(p)

SpecConc == Init /\ [][NextConc]_vars

\* Serial calls up to the horizon MaxTime, after which the key is checked
\* no more while time runs on.
LiveBegin(p, k) ==
    /\ clock < MaxTime
    /\ SerialBegin(p, k)

\* Time beyond the horizon: every expiry that is set is reached.
Beyond ==
    /\ clock = MaxTime
    /\ InFlight = {}
    /\ \E k \in Keys : expireAt[k] # NoExpiry
    /\ zset' = [k \in Keys |-> IF expireAt[k] # NoExpiry THEN {} ELSE zset[k]]
    /\ expireAt' = [k \in Keys |-> NoExpiry]
    /\ UNCHANGED <<clock, limit, window, call, hist, faults, http, config>>

NextLive ==
    \/ Tick
    \/ \E p \in Procs, k \in OneKey : LiveBegin(p, k)
    \/ \E p \in Procs : Step(p)
    \/ Beyond

\* Time passes and the store answers; nothing obliges a client to check.
SpecLive ==
    /\ Init
    /\ [][NextLive]_vars
    /\ WF_vars(Tick)
    /\ WF_vars(Beyond)
    /\ \A p \in Procs : WF_vars(Step(p))

\* Calls of several clients, each on its own key, interleaved.
KeysBegin(p, k) ==
    /\ (p = "p1") <=> (k = "X")
    /\ ConcBegin(p, k)

NextKeys ==
    \/ Tick
    \/ \E p \in Procs, k \in Keys : KeysBegin(p, k)
    \/ \E p \in Procs : Step(p)

SpecKeys == Init /\ [][NextKeys]_vars

\* Lines 52-58 on a store that runs a submitted batch as one transaction:
\* evict, insert and count take effect in one step.
DoBatch(p) ==
    /\ call[p].pc = "zrem"
    /\ LET k == call[p].key
           score == Float64(call[p].now)
           zs1 == ZRemRangeByScore(zset[k], 0, Float64(call[p].windowStart))
           zs2 == ZAdd(zs1, score, FormatFloat(score))
       IN  /\ zset' = [zset EXCEPT ![k] = zs2]
           /\ expireAt' = [expireAt EXCEPT ![k] = KeepExpiry(zs1, expireAt[k])]
           /\ call' = [call EXCEPT
                 ![p].pc = "reply",
                 ![p].removed = Cardinality(zset[k]) - Cardinality(zs1),
                 ![p].added = Cardinality(zs2) - Cardinality(zs1),
                 ![p].count = ZCard(zs2),
                 ![p].cmds = @ \o <<Cmd("ZREMRANGEBYSCORE", "pipeline", TRUE),
                                    Cmd("ZADD", "pipeline", TRUE),
                                    Cmd("ZCARD", "pipeline", TRUE)>>]
    /\ UNCHANGED <<clock, limit, window, hist, faults, http, config>>

StepAtomic(p) ==
    \/ DoExpire(p)
    \/ ExpireFails(p)
    \/ DoBatch(p)
    \/ Return(p)
    \/ Fail(p)

NextAtomic ==
    \/ Tick
    \/ \E p \in Procs, k \in OneKey : ConcBegin(p, k)
    \/ \E p \in Procs : StepAtomic(p)

\* Concurrent calls against a store with atomic batches.
SpecAtomic == Init /\ [][NextAtomic]_vars

\* A burst: calls from the goroutines of Procs, one after the other and
\* side by side, all within one reading of the clock.
BurstBegin(p, k) ==
    /\ Len(hist) + Cardinality(InFlight) < MaxChecks
    /\ Begin(p, k)

NextBurst ==
    \/ \E p \in Procs, k \in OneKey : BurstBegin(p, k)
    \/ \E p \in Procs : Step(p)

SpecBurst == Init /\ [][NextBurst]_vars

\* ------------------------------------------------------ the middleware

\* strconv.Itoa / FormatInt / fmt.Sprintf("%d"): the decimal digits.
Itoa(n) == ToString(n)

\* A division of integers rounding towards zero, as Go's does.
Quo(a, b) == IF a >= 0 THEN a \div b ELSE -((-a) \div b)

\* time.Time.Unix(): the whole seconds of an instant since the epoch.
Unix(t) == t \div Second

\* int64(time.Until(t).Seconds()) read at instant now.
UntilSeconds(t, now) == Quo(t - now, Second)

Header(name, value) == [name |-> name, value |-> value]

\* RateLimiterAdapter.Allow with the engine's Remaining left out.
AllowNoRemaining(r) ==
    IF r.err
    THEN [allowed |-> FALSE, remaining |-> 0, resetTime |-> ZeroTime, err |-> TRUE]
    ELSE [allowed |-> r.res.Allowed, remaining |-> 0,
          resetTime |-> r.res.ResetTime, err |-> FALSE]

\* RateLimiterAdapter.Allow (main.go 385-393) applied to what IsAllowed
\* returned: r.err tells whether the error was non-nil, r.res is the result.
Allow(r) ==
    IF r.err
    THEN [allowed |-> FALSE, remaining |-> 0, resetTime |-> ZeroTime, err |-> TRUE]
    ELSE [allowed |-> r.res.Allowed, remaining |-> r.res.Remaining,
          resetTime |-> r.res.ResetTime, err |-> FALSE]

\* The three headers of every answered check (ratelimit.go 79-81).
RateLimitHeaders(got, lim) ==
    {Header("X-RateLimit-Limit", Itoa(lim)),
     Header("X-RateLimit-Remaining", Itoa(got.remaining)),
     Header("X-RateLimit-Reset", Itoa(Unix(got.resetTime)))}

\* The handler rejecting a request when the limiter reports an error
\* (fail-closed).
ServedFailClosed(h, got, lim, now) ==
    IF got.err \/ ~got.allowed
    THEN [h EXCEPT !.pc = "done", !.got = got,
                   !.headers = IF got.err THEN {} ELSE
                       RateLimitHeaders(got, lim) \cup
                       {Header("Retry-After", Itoa(UntilSeconds(got.resetTime, now)))},
                   !.exceededCalls = @ + 1, !.status = 429]
    ELSE [h EXCEPT !.pc = "done", !.got = got,
                   !.headers = RateLimitHeaders(got, lim),
                   !.nextCalls = @ + 1]

\* The handler without the return of line 87: a denied request goes on to
\* the next handler.
ServedFallThrough(h, got, lim, now) ==
    IF got.err
    THEN [h EXCEPT !.pc = "done", !.got = got, !.nextCalls = @ + 1]
    ELSE IF ~got.allowed
    THEN [h EXCEPT !.pc = "done", !.got = got,
                   !.headers = RateLimitHeaders(got, lim) \cup
                       {Header("Retry-After", Itoa(UntilSeconds(got.resetTime, now)))},
                   !.exceededCalls = @ + 1, !.status = 429,
                   !.nextCalls = @ + 1]
    ELSE [h EXCEPT !.pc = "done", !.got = got,
                   !.headers = RateLimitHeaders(got, lim),
                   !.nextCalls = @ + 1]

\* The handler setting Retry-After on every answered check.
ServedRetryAlways(h, got, lim, now) ==
    IF got.err
    THEN [h EXCEPT !.pc = "done", !.got = got, !.nextCalls = @ + 1]
    ELSE IF ~got.allowed
    THEN [h EXCEPT !.pc = "done", !.got = got,
                   !.headers = RateLimitHeaders(got, lim) \cup
                       {Header("Retry-After", Itoa(UntilSeconds(got.resetTime, now)))},
                   !.exceededCalls = @ + 1, !.status = 429]
    ELSE [h EXCEPT !.pc = "done", !.got = got,
                   !.headers = RateLimitHeaders(got, lim) \cup
                       {Header("Retry-After", Itoa(UntilSeconds(got.resetTime, now)))},
                   !.nextCalls = @ + 1]

\* ratelimit.go 71-91 and main.go 407-428: what the handler does with the
\* answer got of limiter.Allow, for the request h, at instant now.
Served(h, got, lim, now) ==
    IF got.err
    THEN [h EXCEPT !.pc = "done", !.got = got, !.nextCalls = @ + 1]
    ELSE IF ~got.allowed
    THEN [h EXCEPT !.pc = "done", !.got = got,
                   !.headers = RateLimitHeaders(got, lim) \cup
                       {Header("Retry-After", Itoa(UntilSeconds(got.resetTime, now)))},
                   !.exceededCalls = @ + 1, !.status = 429]
    ELSE [h EXCEPT !.pc = "done", !.got = got,
                   !.headers = RateLimitHeaders(got, lim),
                   !.nextCalls = @ + 1]

\* The key handed to the limiter without its prefix.
RateLimitKeyBare(mw, key) == key

\* fmt.Sprintf("rate_limit:%s", key) of ratelimit.go 64 and
\* fmt.Sprintf("rate_limit:ip:%s", clientIP) of main.go 400.
RateLimitKey(mw, key) ==
    IF mw = "gin" THEN "rate_limit:ip:" \o key ELSE "rate_limit:" \o key

\* No request is being served.
Quiet == InFlight = {} /\ \A q \in Procs : http[q].pc # "allow"

\* The limiter asked also for a request that is to be skipped or has no key.
BypassThroughLimiter(p, skip, key) ==
    /\ Quiet
    /\ p = "p1"
    /\ skip \/ key = ""
    /\ Len(hist) < MaxRequests
    /\ \A i \in 1..Len(hist) :
         clock = hist[i].now \/ clock >= hist[i].now + MinGap
    /\ call' = [call EXCEPT ![p] =
                 [Idle EXCEPT !.pc = "expire", !.key = "X", !.now = clock,
                              !.windowStart = clock - window]]
    /\ http' = [http EXCEPT ![p] =
                 [NoRequest EXCEPT !.pc = "allow", !.skip = skip, !.key = key,
                                   !.allowCalls = 1]]
    /\ UNCHANGED <<clock, zset, expireAt, limit, window, hist, faults, config>>

\* ratelimit.go 48-61: SkipFunc says skip, or KeyFunc gives no key: the
\* request goes to the next handler.
Bypass(p, skip, key) ==
    /\ Quiet
    /\ p = "p1"
    /\ skip \/ key = ""
    /\ http' = [http EXCEPT ![p] =
                 [NoRequest EXCEPT !.pc = "done", !.skip = skip, !.key = key,
                                   !.nextCalls = 1]]
    /\ UNCHANGED <<clock, zset, expireAt, limit, window, call, hist, faults, config>>

\* ratelimit.go 48-70 for a request with a key that is not skipped, and
\* main.go 397-406: limiter.Allow is called under a context with the
\* deadline, and IsAllowed takes its timestamps (limiter.go 45-58).  The
\* key of the model stands for the store key under its "rate_limit:" prefix.
Check(p, mw, key) ==
    /\ Quiet
    /\ p = "p1"
    /\ key # ""
    /\ Len(hist) < MaxRequests
    /\ \A i \in 1..Len(hist) :
         clock = hist[i].now \/ clock >= hist[i].now + MinGap
    /\ call' = [call EXCEPT ![p] =
                 [Idle EXCEPT !.pc = "expire", !.key = key, !.now = clock,
                              !.windowStart = clock - window]]
    /\ http' = [http EXCEPT ![p] =
                 [NoRequest EXCEPT !.pc = "allow", !.mw = mw, !.key = key,
                                   !.allowCalls = 1,
                                   !.args = [key |-> RateLimitKey(mw, key),
                                             limit |-> limit,
                                             window |-> window]]]
    /\ UNCHANGED <<clock, zset, expireAt, limit, window, hist, faults, config>>

\* The store commands of the call in process p.
Commands(p) ==
    \/ DoExpire(p)
    \/ ExpireFails(p)
    \/ DoZRem(p)
    \/ DoZAdd(p)
    \/ DoZCard(p)

\* IsAllowed returns its decision (limiter.go 64-95), the adapter hands it
\* on and the handler answers the request.
Respond(p) ==
    /\ call[p].pc = "reply"
    /\ http[p].pc = "allow"
    /\ LET r == Returned(call[p],
                   Decide(call[p].count, limit, window, call[p].now))
       IN  /\ hist' = Append(hist, r)
           /\ http' = [http EXCEPT ![p] = Served(@, Allow(r), limit, clock)]
    /\ call' = [call EXCEPT ![p] = Idle]
    /\ UNCHANGED <<clock, zset, expireAt, limit, window, faults, config>>

\* IsAllowed returns an error (limiter.go 64-67, 70-73), the adapter hands
\* it on and the handler answers the request.
RespondError(p) ==
    /\ call[p].pc \in {"zrem", "zadd", "zcard", "reply"}
    /\ http[p].pc = "allow"
    /\ faults < MaxFaults
    /\ faults' = faults + 1
    /\ LET r == Failed(call[p])
       IN  /\ hist' = Append(hist, r)
           /\ http' = [http EXCEPT ![p] = Served(@, Allow(r), limit, clock)]
    /\ call' = [call EXCEPT ![p] = Idle]
    /\ UNCHANGED <<clock, zset, expireAt, limit, window, config>>

RequestKeys == {""} \cup OneKey

NextMw ==
    \/ Tick
    \/ \E p \in Procs, skip \in BOOLEAN, key \in RequestKeys : Bypass(p, skip, key)
    \/ \E p \in Procs, mw \in {"http", "gin"}, key \in RequestKeys : Check(p, mw, key)
    \/ \E p \in Procs : Commands(p)
    \/ \E p \in Procs : Respond(p)
    \/ \E p \in Procs : RespondError(p)

\* Requests served one at a time through either middleware.
SpecMw == Init /\ [][NextMw]_vars

\* A window long enough to hold three checks made one after the other.
LongWindow == 2 * MinGap + 1

InitLong ==
    /\ clock = 0
    /\ zset = [k \in Keys |-> {}]
    /\ expireAt = [k \in Keys |-> NoExpiry]
    /\ limit \in Limits
    /\ window = LongWindow
    /\ call = [p \in Procs |-> Idle]
    /\ hist = <<>>
    /\ faults = 0
    /\ http = [p \in Procs |-> NoRequest]
    /\ config = [MaxRequests |-> limit, WindowSize |-> window]

\* Serial calls with a long window.
SpecLong == InitLong /\ [][Next]_vars

\* A call begun early enough for its deadline to lie within the horizon.
SilentBegin(p, k) ==
    /\ clock + Timeout <= MaxTime
    /\ Len(hist) < MaxRequests
    /\ SerialBegin(p, k)

\* The deadline honoured by the pipeline only: Expire sent under a context
\* of its own, without deadline.
DeadlineExecOnly(p) ==
    /\ call[p].pc \in {"zrem", "zadd", "zcard"}
    /\ clock = call[p].now + Timeout
    /\ hist' = Append(hist, Failed(call[p]))
    /\ call' = [call EXCEPT ![p] = Idle]
    /\ UNCHANGED <<clock, zset, expireAt, limit, window, faults, http, config>>

\* The deadline of the caller's context (ratelimit.go 67, main.go 403) is
\* reached while a command of lines 61-64, all sent under ctx, waits for the
\* store: Expire gives up (its error is dropped) and Exec returns the error.
Deadline(p) ==
    /\ call[p].pc \in {"expire", "zrem", "zadd", "zcard"}
    /\ clock = call[p].now + Timeout
    /\ hist' = Append(hist, Failed(call[p]))
    /\ call' = [call EXCEPT ![p] = Idle]
    /\ UNCHANGED <<clock, zset, expireAt, limit, window, faults, http, config>>

NextSilent ==
    \/ Tick
    \/ \E p \in Procs, k \in OneKey : SilentBegin(p, k)
    \/ \E p \in Procs : Step(p)
    \/ \E p \in Procs : Deadline(p)

\* Serial calls against a store that may stop answering at any point: time
\* passes, deadlines strike and an answered call returns, but no command
\* needs ever be answered.
SpecSilent ==
    /\ Init
    /\ [][NextSilent]_vars
    /\ WF_vars(Tick)
    /\ \A p \in Procs : WF_vars(Deadline(p)) /\ WF_vars(Return(p))

\* A window that reaches back over every check made so far.
WideWindow == 2 * MaxWindow + Ulp

\* The caller hands the next call another window than the last one: limit
\* and window are parameters of IsAllowed (limiter.go 44), nothing of them
\* is kept in the store.
SetWindow(w) ==
    /\ InFlight = {}
    /\ w # window
    /\ window' = w
    /\ UNCHANGED <<clock, zset, expireAt, limit, call, hist, faults, http, config>>

\* Three calls are enough for a window to change twice.
VaryBegin(p, k) ==
    /\ Len(hist) < MaxChecks - 1
    /\ SerialBegin(p, k)

NextVary ==
    \/ Tick
    \/ \E p \in Procs, k \in OneKey : VaryBegin(p, k)
    \/ \E p \in Procs : Step(p)
    \/ \E w \in Windows \cup {WideWindow} : SetWindow(w)

\* Serial calls whose window changes from call to call.
SpecVary == Init /\ [][NextVary]_vars

\* Limits a caller must not pass and the engine does not reject.
NoLimits == {-1, 0}

InitNoLimit ==
    /\ clock = 0
    /\ zset = [k \in Keys |-> {}]
    /\ expireAt = [k \in Keys |-> NoExpiry]
    /\ limit \in NoLimits
    /\ window \in Windows
    /\ call = [p \in Procs |-> Idle]
    /\ hist = <<>>
    /\ faults = 0
    /\ http = [p \in Procs |-> NoRequest]
    /\ config = [MaxRequests |-> limit, WindowSize |-> window]

\* Serial calls with a limit of zero or less.
SpecNoLimit == InitNoLimit /\ [][Next]_vars

\* The values a caller may put into RateLimitConfig: unset (zero), set,
\* and negative.
ConfigLimits == {-1, 0, 1}
ConfigWindows == {-1, 0, MinWindow}

\* RateLimitMiddleware(limiter, config) has built its handler: limit and
\* window are the values of its copy of config after lines 34-39.
InitConfig ==
    /\ clock = 0
    /\ zset = [k \in Keys |-> {}]
    /\ expireAt = [k \in Keys |-> NoExpiry]
    /\ config \in [MaxRequests : ConfigLimits, WindowSize : ConfigWindows]
    /\ limit = WithDefaults(config).MaxRequests
    /\ window = WithDefaults(config).WindowSize
    /\ call = [p \in Procs |-> Idle]
    /\ hist = <<>>
    /\ faults = 0
    /\ http = [p \in Procs |-> NoRequest]

NextConfig ==
    \/ Tick
    \/ \E p \in Procs, skip \in BOOLEAN, key \in RequestKeys : Bypass(p, skip, key)
    \/ \E p \in Procs, key \in RequestKeys : Check(p, "http", key)
    \/ \E p \in Procs : Commands(p)
    \/ \E p \in Procs : Respond(p)
    \/ \E p \in Procs : RespondError(p)

\* Requests served by the net/http middleware built from any configuration.
SpecConfig == InitConfig /\ [][NextConfig]_vars

\* ------------------------------------------------------------- claims

Max(a, b) == IF a >= b THEN a ELSE b

Returns == 1..Len(hist)
Ok(i) == ~hist[i].err
Admitted(i) == Ok(i) /\ hist[i].res.Allowed
Denied(i) == Ok(i) /\ ~hist[i].res.Allowed
Score(i) == Float64(hist[i].now)

\* Every returned call succeeded and no two of them stored the same score.
CleanHistory ==
    /\ \A i \in Returns : Ok(i)
    /\ \A i, j \in Returns : i # j => Score(i) # Score(j)

\* C1 (as claimed): serial checks with distinct timestamps: the admitted
\* checks with a timestamp in a trailing interval (t - window, t] are at
\* most limit, for every t.
C1_AdmittedWithinLimit ==
    CleanHistory =>
        \A t \in 0..MaxTime :
            Cardinality({i \in Returns :
                Admitted(i) /\ t - window < hist[i].now /\ hist[i].now <= t}) <= limit

\* C5: every decision has Remaining in [0, limit].
C5_RemainingInRange ==
    \A i \in Returns : Ok(i) =>
        hist[i].res.Remaining >= 0 /\ hist[i].res.Remaining <= limit

\* C5 witness: a check read a count above the limit and returned.
C5_Witness ==
    \E i \in Returns : Ok(i) /\ hist[i].count > limit /\ hist[i].res.Remaining = 0

\* C6: the decision is Allowed = (count <= limit), Remaining =
\* max(0, limit - count), ResetTime = now + window, RetryAfter = window if
\* count > limit and 0 otherwise; so a denial has Remaining = 0 and a check
\* is allowed exactly if RetryAfter = 0.
C6_DecisionFormula ==
    \A i \in Returns : Ok(i) =>
        LET h == hist[i] IN
        /\ h.res.Allowed <=> (h.count <= limit)
        /\ h.res.Remaining = Max(0, limit - h.count)
        /\ h.res.ResetTime = h.now + window
        /\ h.res.RetryAfter = (IF h.count > limit THEN window ELSE 0)
        /\ ~h.res.Allowed => h.res.Remaining = 0
        /\ h.res.Allowed <=> (h.res.RetryAfter = 0)

\* C6 witness: an allowed decision at the limit and a denied one.
C6_Witness ==
    \E i, j \in Returns :
        /\ Admitted(i) /\ hist[i].count = limit /\ hist[i].res.RetryAfter = 0
        /\ Denied(j) /\ hist[j].res.RetryAfter = window

\* The calls a..b are all the calls of one window: every earlier call lies
\* at least a window before call a, and call b less than a window after it.
OneWindow(a, b) ==
    /\ a <= b
    /\ \A i \in 1..(a - 1) : hist[i].now <= hist[a].now - window
    /\ hist[b].now - hist[a].now < window

\* C2: N <= limit serial checks within one window are all allowed, and the
\* Remaining values they return never increase.
C2_AllowedAndNonIncreasing ==
    \A a, b \in Returns :
        (OneWindow(a, b) /\ b - a + 1 <= limit) =>
            /\ \A i \in a..b : Ok(i) => hist[i].res.Allowed
            /\ \A i, j \in a..b :
                 (i < j /\ Ok(i) /\ Ok(j)) =>
                     hist[j].res.Remaining <= hist[i].res.Remaining

\* C2 witness: two checks of one window, limit 2, Remaining going down.
C2_Witness ==
    /\ Len(hist) >= 2
    /\ limit = 2
    /\ hist[2].now - hist[1].now < window
    /\ Admitted(1) /\ Admitted(2)
    /\ hist[2].res.Remaining < hist[1].res.Remaining

\* C3 (as claimed): the (limit+1)-th check within the same window is denied
\* with Remaining = 0 and RetryAfter = window.
C3_NextCheckDenied ==
    \A a, b \in Returns :
        (OneWindow(a, b) /\ b - a + 1 = limit + 1 /\ \A i \in a..b : Ok(i)) =>
            /\ ~hist[b].res.Allowed
            /\ hist[b].res.Remaining = 0
            /\ hist[b].res.RetryAfter = window

\* C4 (as claimed): once time has advanced past window from the first
\* check, a fresh check is allowed with Remaining = limit - 1, whatever
\* checks were made in between.
C4_FreshAfterFirst ==
    \A j \in Returns :
        (j > 1 /\ (\A i \in 1..j : Ok(i)) /\ hist[1].now <= hist[j].now - window) =>
            hist[j].res.Allowed /\ hist[j].res.Remaining = limit - 1

\* C4 (amended): once time has advanced by window or more from the last
\* earlier check, a fresh check is allowed with Remaining = limit - 1.
C4_FreshAfterLast ==
    \A j \in Returns :
        (Ok(j) /\ \A i \in 1..(j - 1) : hist[i].now <= hist[j].now - window) =>
            hist[j].res.Allowed /\ hist[j].res.Remaining = limit - 1

\* C4 witness: a denied check, then a check a window later that starts anew.
C4_Witness ==
    \E i, j \in Returns :
        /\ i < j /\ j = Len(hist)
        /\ Denied(i)
        /\ Ok(j)
        /\ \A m \in 1..(j - 1) : hist[m].now <= hist[j].now - window
        /\ hist[j].count = 1

\* C8 (as claimed): every check inserts an entry distinct from all entries
\* in the log: the insert makes the log one entry larger.
C8_InsertAddsOne ==
    \A p \in Procs : call[p].pc \in {"zcard", "reply"} => call[p].added = 1

\* The step is the eviction (line 52) of the call in process p.
EvictionStep(p) == call[p].pc = "zrem" /\ call'[p].pc = "zadd"

\* C7 (as claimed): the eviction removes exactly the entries with a score
\* strictly below windowStart; an entry at windowStart stays.
C7_EvictsBelowWindowStart ==
    [][\A p \in Procs : EvictionStep(p) =>
          zset'[call[p].key] =
              {e \in zset[call[p].key] : e.score >= Float64(call[p].windowStart)}]_vars

\* C7 (amended): the eviction removes exactly the entries with a score at
\* or below windowStart (as converted to float64); an entry at windowStart
\* is removed and not counted.
C7_EvictsUpToWindowStart ==
    [][\A p \in Procs : EvictionStep(p) =>
          zset'[call[p].key] =
              {e \in zset[call[p].key] : e.score > Float64(call[p].windowStart)}]_vars

\* C7 witness: an eviction has just removed the one entry of the log, whose
\* score is exactly windowStart.
C7_Witness ==
    \E p \in Procs :
        /\ call[p].pc = "zadd"
        /\ call[p].removed = 1
        /\ Len(hist) >= 1
        /\ Ok(Len(hist))
        /\ hist[Len(hist)].count = 1
        /\ Score(Len(hist)) = Float64(call[p].windowStart)
        /\ hist[Len(hist)].now = call[p].windowStart
        /\ zset[call[p].key] = {}

EntryIn(i, zs) == \E e \in zs : e.member = FormatFloat(Score(i))

\* C10: a denied check leaves the entry it inserted in the log; the engine
\* does not remove it on denial; it stays until an eviction whose window no
\* longer covers it or the expiry of the key, and every count taken while
\* it is in the log counts it.
C10_RetainOnDeny ==
    [][/\ \A p \in Procs :
            (call[p].pc = "reply" /\ call'[p].pc = "idle"
                /\ ~hist'[Len(hist')].err /\ ~hist'[Len(hist')].res.Allowed) =>
               /\ zset' = zset
               /\ expireAt' = expireAt
       /\ \A i \in Returns :
            (Denied(i) /\ EntryIn(i, zset[hist[i].key])) =>
               \/ EntryIn(i, zset'[hist[i].key])
               \/ \E p \in Procs :
                     EvictionStep(p) /\ Float64(call[p].windowStart) >= Score(i)
               \/ clock' > clock /\ expireAt[hist[i].key] # NoExpiry
                     /\ expireAt[hist[i].key] <= clock'
       /\ \A p \in Procs :
            (call[p].pc = "zcard" /\ call'[p].pc = "reply") =>
               call'[p].count >=
                   Cardinality({Score(i) : i \in {j \in Returns :
                       Denied(j) /\ EntryIn(j, zset[call[p].key])}})
      ]_vars

\* C10 (as claimed): every later check whose window still covers the
\* timestamp of a denied check counts the entry that check left in the log.
C10_LaterCheckCounts ==
    faults = 0 =>
        \A i, j \in Returns :
            (/\ i < j
             /\ Denied(i) /\ Ok(j)
             /\ hist[j].now - window < hist[i].now
             /\ Score(i) # Score(j)) => hist[j].count >= 2

\* The step is the return of a decision by the call in process p.
DecisionStep(p) ==
    /\ call[p].pc = "reply" /\ call'[p].pc = "idle"
    /\ Len(hist') = Len(hist) + 1
    /\ ~hist'[Len(hist')].err

\* Every command the call in process p has sent was answered by the store.
AllAnswered(p) == \A n \in 1..Len(call[p].cmds) : call[p].cmds[n].ok

\* C11 (as claimed): when a check completes, the first check on a new key
\* included, the key carries an expiry of window + Margin counted from that
\* check (from the instant the store ran its EXPIRE, between now and the
\* deadline of the call).
C11_ExpiryAfterCheck ==
    [][\A p \in Procs : (DecisionStep(p) /\ AllAnswered(p)) =>
          LET k == call[p].key IN
          /\ expireAt'[k] # NoExpiry
          /\ expireAt'[k] >= call[p].now + window + Margin
          /\ expireAt'[k] <= call[p].now + Timeout + window + Margin]_vars

\* C12 (as claimed): once a key is checked no more, its log is eventually
\* removed from the store by the expiry of the key, whatever number of
\* checks was made before (store failures apart).
C12_LogEventuallyRemoved ==
    [](faults = 0) => \A k \in Keys : <>[](zset[k] = {})

\* The names of the commands the call in process p has sent, in order.
Names(p) == [n \in 1..Len(call[p].cmds) |-> call[p].cmds[n].cmd]

\* C13 (as claimed): a call hands the store its evict, insert, count and
\* expire commands in that order, all of them in the one pipeline batch,
\* and no command outside the batch.
C13_OneBatchInOrder ==
    \A p \in Procs : call[p].pc = "reply" =>
        /\ Names(p) = <<"ZREMRANGEBYSCORE", "ZADD", "ZCARD", "EXPIRE">>
        /\ \A n \in 1..Len(call[p].cmds) : call[p].cmds[n].via = "pipeline"

\* C14 (as claimed): a call one of whose commands the store failed to
\* answer (evict, insert, count, the batch or the expiry refresh) returns
\* an error and a nil result, never a decision.
C14_FailureGivesError ==
    [][\A p \in Procs :
          (call[p].pc # "idle" /\ call'[p].pc = "idle" /\ ~AllAnswered(p)) =>
              /\ hist'[Len(hist')].err
              /\ hist'[Len(hist')].res = NilResult]_vars

\* The commands of the batch that the store has run for the call in p.
Batch(p) ==
    SelectSeq(call[p].cmds, LAMBDA c : c.via = "pipeline")

\* C15: a batch of which a command failed while others were applied makes
\* the whole check fail: a decision is returned only after all three
\* commands of the batch were answered, and a failed check returns an
\* error and the nil result, nothing computed from partial results.
C15_PartialBatchIsFailure ==
    [][\A p \in Procs :
          (call[p].pc # "idle" /\ call'[p].pc = "idle") =>
              LET r == hist'[Len(hist')] IN
              /\ Len(hist') = Len(hist) + 1
              /\ ~r.err => (Len(Batch(p)) = 3 /\ \A n \in 1..3 : Batch(p)[n].ok)
              /\ Len(Batch(p)) < 3 => r.err
              /\ r.err => r.res = NilResult]_vars

\* C15 witness: the only check so far failed after its insert was applied.
C15_Witness ==
    /\ Len(hist) = 1
    /\ hist[1].err /\ hist[1].res = NilResult
    /\ InFlight = {}
    /\ \E e \in zset[hist[1].key] : e.member = FormatFloat(Score(1))

\* The place of a program position in the course of a call.
Rank(pc) ==
    CASE pc = "idle" -> 0
      [] pc = "expire" -> 1
      [] pc = "zrem" -> 2
      [] pc = "zadd" -> 3
      [] pc = "zcard" -> 4
      [] pc = "reply" -> 5

\* C16: no retries: within one call every store command is sent at most
\* once and the batch is executed once; a call moves forward only and ends,
\* with a decision or an error, without going back to a command it has sent.
C16_NoRetry ==
    [][\A p \in Procs :
          /\ \A m, n \in 1..Len(call'[p].cmds) :
                 m # n => call'[p].cmds[m].cmd # call'[p].cmds[n].cmd
          /\ Len(call'[p].cmds) <= 4
          /\ (call[p].pc # "idle" /\ call'[p].pc # call[p].pc) =>
                 \/ Rank(call'[p].pc) = Rank(call[p].pc) + 1
                 \/ call'[p].pc = "idle" /\ Len(hist') = Len(hist) + 1]_vars

\* C16 witness: a check whose batch failed before any command of it ran
\* has returned its error; nothing was sent again.
C16_Witness ==
    /\ Len(hist) = 1
    /\ hist[1].err
    /\ InFlight = {}
    /\ faults = 1
    /\ zset[hist[1].key] = {}

\* C20: the engine keeps no state between calls and a check on key K
\* touches nothing but K: limit and window (the limiter's configuration)
\* are never written, a step of a call on K leaves the log and the expiry
\* of every other key as they were, and the count a check decides on is
\* the cardinality of the log of its own key.
C20_OnlyOwnKey ==
    [][/\ limit' = limit /\ window' = window
       /\ \A p \in Procs :
            (call[p].pc # "idle" /\ call'[p].pc # call[p].pc) =>
               /\ \A k \in Keys \ {call[p].key} :
                      zset'[k] = zset[k] /\ expireAt'[k] = expireAt[k]
               /\ (call[p].pc = "zcard" /\ call'[p].pc = "reply") =>
                      call'[p].count = Cardinality(zset[call[p].key])]_vars

\* C20 witness: with limit 1, a check on X and a check on Y less than a
\* window apart are both admitted, each with count 1, and both logs hold
\* their entry.
C20_Witness ==
    \E i, j \in Returns :
        /\ hist[i].key = "X" /\ hist[j].key = "Y"
        /\ limit = 1
        /\ Admitted(i) /\ Admitted(j)
        /\ hist[i].count = 1 /\ hist[j].count = 1
        /\ hist[j].now - hist[i].now < window /\ hist[i].now - hist[j].now < window
        /\ zset["X"] # {} /\ zset["Y"] # {}

\* One call run alone on the log zs of a key (exp: the key has an expiry),
\* timestamp now: EXPIRE, evict, insert, count, as lines 52-61 have the
\* store run them; the counts read so far are kept.
SerialStep(st, now) ==
    LET exp1 == st.zs # {}
        zs1 == ZRemRangeByScore(st.zs, 0, Float64(now - window))
        zs2 == ZAdd(zs1, Float64(now), FormatFloat(Float64(now)))
    IN  [zs |-> zs2, exp |-> exp1 /\ zs1 # {}, counts |-> Append(st.counts, ZCard(zs2))]

RECURSIVE SerialRun(_, _)
\* The calls with the timestamps nows run one after the other.
SerialRun(nows, st) ==
    IF nows = <<>> THEN st
    ELSE SerialRun(Tail(nows), SerialStep(st, Head(nows)))

\* The orders in which n calls can be run one after the other.
Orders(n) == {f \in [1..n -> 1..n] : \A a, b \in 1..n : a # b => f[a] # f[b]}

\* Some serial execution of the returned calls gives the counts they read
\* and the log of key k as it is, with or without an expiry as it is.
SomeSerialRun(k) ==
    \E f \in Orders(Len(hist)) :
        LET run == SerialRun([i \in 1..Len(hist) |-> hist[f[i]].now],
                             [zs |-> {}, exp |-> FALSE, counts |-> <<>>])
        IN  /\ run.zs = zset[k]
            /\ run.exp = (expireAt[k] # NoExpiry)
            /\ \A i \in 1..Len(hist) : run.counts[i] = hist[f[i]].count

\* C19 (as claimed): on a store that executes a batch atomically, the
\* decisions of concurrent calls on a key and the key's final log and
\* expiry are those of some serial execution of the calls (stated for
\* calls without store failures, before any expiry is reached).
C19_AtomicAsSerial ==
    (/\ InFlight = {}
     /\ faults = 0
     /\ clock < window + Margin) => SomeSerialRun("X")

\* The number of checks admitted with a timestamp in (t - window, t].
AdmittedIn(t) ==
    Cardinality({i \in Returns :
        Admitted(i) /\ t - window < hist[i].now /\ hist[i].now <= t})

\* C17 (as claimed): the race between concurrent checks lets the checks
\* admitted in one window exceed limit by at most the concurrency degree
\* (the number of goroutines checking side by side) minus one.
C17_ExcessBelowDegree ==
    \A t \in 0..MaxTime : AdmittedIn(t) <= limit + (Cardinality(Procs) - 1)

\* C18 (as claimed): under every interleaving the checks admitted in one
\* window are at most limit + the greatest number of checks in flight at
\* once (at most one per goroutine of Procs).
C18_AtMostLimitPlusInFlight ==
    \A t \in 0..MaxTime : AdmittedIn(t) <= limit + Cardinality(Procs)

\* C21 (as claimed): serial checks with a fixed limit and window: the log
\* of a key never holds more than limit + 1 entries (every check evicts and
\* then adds one entry), also under a burst of denied checks in one window.
C21_LogWithinLimitPlusOne ==
    \A k \in Keys : Cardinality(zset[k]) <= limit + 1

\* C22: a check denied at time t that is followed by no check before its
\* ResetTime = t + window: the next check, at or after ResetTime, is
\* allowed.
C22_AllowedAfterReset ==
    \A i \in Returns :
        (/\ i < Len(hist)
         /\ Denied(i)
         /\ Ok(i + 1)
         /\ hist[i + 1].now >= hist[i].res.ResetTime) =>
            hist[i + 1].res.Allowed

\* C22 witness: a denied check, and the next check made at or after its
\* ResetTime, allowed.
C22_Witness ==
    \E i \in Returns :
        /\ i < Len(hist)
        /\ Denied(i)
        /\ hist[i].res.ResetTime = hist[i].now + window
        /\ hist[i + 1].now >= hist[i].res.ResetTime
        /\ Admitted(i + 1)

\* The request h is one for the limiter to be left out: SkipFunc said skip
\* or KeyFunc gave the empty key.
Bypassed(h) == h.mw = "http" /\ (h.skip \/ h.key = "")

\* C23: a request that SkipFunc skips or that has the empty key is passed to
\* the next handler without a call of the limiter: the step that serves it
\* leaves the store and the calls as they are, and the request ends with
\* the next handler called once and no header set.
C23_BypassTouchesNothing ==
    /\ [](\A p \in Procs :
            (http[p].pc # "none" /\ Bypassed(http[p])) =>
                /\ http[p].pc = "done"
                /\ http[p].allowCalls = 0
                /\ http[p].nextCalls = 1
                /\ http[p].exceededCalls = 0
                /\ http[p].headers = {}
                /\ http[p].status = 0)
    /\ [][\A p \in Procs :
            (http'[p] # http[p] /\ Bypassed(http'[p])) =>
                /\ zset' = zset
                /\ expireAt' = expireAt
                /\ call' = call
                /\ hist' = hist]_vars

\* C23 witness: after a check that left an entry in the log, a request
\* without a key went to the next handler.
C23_Witness ==
    \E p \in Procs :
        /\ http[p].pc = "done"
        /\ http[p].key = ""
        /\ ~http[p].skip
        /\ http[p].nextCalls = 1
        /\ zset["X"] # {}
        /\ Len(hist) > 0

\* C24: when limiter.Allow returns an error, either middleware hands the
\* request to the next handler and sets no header; the middleware answers
\* 429 only for a decision that came without error and denies.
C24_FailOpen ==
    \A p \in Procs :
        http[p].pc = "done" =>
            /\ http[p].got.err =>
                 /\ http[p].nextCalls = 1
                 /\ http[p].exceededCalls = 0
                 /\ http[p].headers = {}
                 /\ http[p].status = 0
            /\ http[p].status = 429 =>
                 ~http[p].got.err /\ ~http[p].got.allowed

\* C24 witness: a store failure made the limiter return an error under the
\* gin middleware, and the request went to the next handler.
C24_Witness ==
    \E p \in Procs :
        /\ http[p].pc = "done"
        /\ http[p].mw = "gin"
        /\ http[p].allowCalls = 1
        /\ http[p].got.err
        /\ faults > 0
        /\ http[p].nextCalls = 1

\* The headers of a response with a given name.
Named(h, name) == {e \in h.headers : e.name = name}

\* The request in process p was answered after its call of the limiter,
\* whose return is the last of the history.
Answered(p) ==
    http[p].pc = "done" /\ http[p].allowCalls = 1 /\ Len(hist) > 0

\* C25: whenever the limiter returns a decision without error, either
\* middleware sets the limit, the remaining and the reset header (the
\* epoch seconds of ResetTime), for allowed and denied requests alike, and
\* sets Retry-After exactly if the decision denies.
C25_HeadersOnDecision ==
    \A p \in Procs :
        (Answered(p) /\ Ok(Len(hist))) =>
            LET res == hist[Len(hist)].res IN
            /\ Named(http[p], "X-RateLimit-Limit") =
                   {Header("X-RateLimit-Limit", ToString(limit))}
            /\ Named(http[p], "X-RateLimit-Remaining") =
                   {Header("X-RateLimit-Remaining", ToString(res.Remaining))}
            /\ Named(http[p], "X-RateLimit-Reset") =
                   {Header("X-RateLimit-Reset", ToString(res.ResetTime \div Second))}
            /\ (Named(http[p], "Retry-After") # {}) <=> ~res.Allowed

\* C25 witness: a denied request answered by the net/http middleware with
\* the three headers and Retry-After.
C25_Witness ==
    \E p \in Procs :
        /\ Answered(p)
        /\ http[p].mw = "http"
        /\ Denied(Len(hist))
        /\ Cardinality(http[p].headers) = 4
        /\ Named(http[p], "Retry-After") # {}

\* C26: RateLimiterAdapter.Allow returns the engine's Allowed, Remaining and
\* ResetTime with a nil error when IsAllowed succeeds and (false, 0, zero
\* time, err) when it fails, and the step in which it returns changes
\* nothing in the store.
C26_AdapterHandsOn ==
    /\ [](\A p \in Procs :
            Answered(p) =>
                LET r == hist[Len(hist)] IN
                IF r.err
                THEN /\ http[p].got.err
                     /\ ~http[p].got.allowed
                     /\ http[p].got.remaining = 0
                     /\ http[p].got.resetTime = ZeroTime
                ELSE /\ ~http[p].got.err
                     /\ http[p].got.allowed = r.res.Allowed
                     /\ http[p].got.remaining = r.res.Remaining
                     /\ http[p].got.resetTime = r.res.ResetTime)
    /\ [][\A p \in Procs :
            (http[p].pc = "allow" /\ http'[p].pc = "done") =>
                zset' = zset /\ expireAt' = expireAt]_vars

\* C26 witness: an allowed decision with quota left came through the
\* adapter.
C26_Witness ==
    \E p \in Procs :
        /\ Answered(p)
        /\ Admitted(Len(hist))
        /\ hist[Len(hist)].res.Remaining > 0
        /\ http[p].got.remaining = hist[Len(hist)].res.Remaining
        /\ http[p].got.resetTime = hist[Len(hist)].now + window

\* C27: every store command of a check runs under the caller's context
\* with its deadline, so every check returns, with a decision or with an
\* error, even when the store never answers.
C27_EveryCheckReturns ==
    \A p \in Procs : (call[p].pc # "idle") ~> (call[p].pc = "idle")

\* C27 witness: a call returned an error at its deadline without any store
\* failure reported before: the store had gone silent.
C27_Witness ==
    /\ Len(hist) > 0
    /\ hist[Len(hist)].err
    /\ faults = 0
    /\ InFlight = {}
    /\ clock = hist[Len(hist)].now + Timeout

\* C28: for every request the net/http middleware calls exactly one of
\* next.ServeHTTP and OnLimitExceeded, exactly once: OnLimitExceeded exactly
\* if the limiter returned allowed = false without error, next.ServeHTTP
\* otherwise (skip, empty key, limiter error, allowed).
C28_ExactlyOneHandler ==
    \A p \in Procs :
        (http[p].pc = "done" /\ http[p].mw = "http") =>
            /\ http[p].nextCalls + http[p].exceededCalls = 1
            /\ http[p].exceededCalls = 1 <=>
                 (Answered(p) /\ Denied(Len(hist)))
            /\ http[p].nextCalls = 1 <=>
                 \/ Bypassed(http[p])
                 \/ Answered(p) /\ ~Ok(Len(hist))
                 \/ Answered(p) /\ Admitted(Len(hist))

\* C28 witness: a denied request of the net/http middleware went to
\* OnLimitExceeded and not to the next handler.
C28_Witness ==
    \E p \in Procs :
        /\ Answered(p)
        /\ http[p].mw = "http"
        /\ Denied(Len(hist))
        /\ http[p].exceededCalls = 1
        /\ http[p].nextCalls = 0
        /\ http[p].status = 429

\* C29 (as claimed): when a serial check with timestamp now and window W
\* has had its batch answered, every entry of the key's log has a score in
\* (now - W, now] and the log holds the entry of that check.
C29_LogWithinWindow ==
    \A p \in Procs :
        call[p].pc = "reply" =>
            LET c == call[p] IN
            /\ \A e \in zset[c.key] : c.now - window < e.score /\ e.score <= c.now
            /\ \E e \in zset[c.key] : e.member = FormatFloat(Float64(c.now))

\* C30 (as claimed): concurrent checks on one key with distinct timestamps
\* that all fall inside one window: however their evict, insert and count
\* commands interleave, at most limit of them are admitted.
C30_ConcurrentWithinLimit ==
    (/\ \A i, j \in Returns : i # j => hist[i].now # hist[j].now
     /\ \A i, j \in Returns : hist[i].now - hist[j].now < window) =>
        Cardinality({i \in Returns : Admitted(i)}) <= limit

Min(a, b) == IF a <= b THEN a ELSE b

\* C31 (as claimed): N concurrent checks on a key whose log was empty, all
\* answered: however their commands interleave, at least min(N, limit) of
\* them are admitted.
C31_ConcurrentAdmitsEnough ==
    (InFlight = {} /\ \A i \in Returns : Ok(i)) =>
        Cardinality({i \in Returns : Admitted(i)}) >= Min(Len(hist), limit)

\* C32 (as claimed): checks on one key arriving evenly spaced at an
\* interval d with limit * d < window: every check after the first limit
\* ones is denied.
C32_ProbingStaysDenied ==
    \A d \in 1..MaxTime :
        (/\ \A i \in Returns : Ok(i)
         /\ \A i \in Returns : i < Len(hist) => hist[i + 1].now - hist[i].now = d
         /\ limit * d < window) =>
            \A i \in Returns : i > limit => ~hist[i].res.Allowed

\* The step is the return of an error by the call in process p.
ErrorStep(p) ==
    /\ call[p].pc # "idle" /\ call'[p].pc = "idle"
    /\ Len(hist') = Len(hist) + 1
    /\ hist'[Len(hist')].err

\* C33 (as claimed): a call that returns an error has left the log of its
\* key as it was: it has evicted no entry and inserted none.
C33_ErrorLeavesLog ==
    [][\A p \in Procs :
          ErrorStep(p) => call[p].added = 0 /\ call[p].removed = 0]_vars

\* C34 (as claimed): serial checks on one key with distinct non-decreasing
\* timestamps: the count a check uses is the number of checks on the key,
\* itself included, with a timestamp in (now - window, now], whatever
\* windows the earlier checks were made with.  Stated for timestamps and a
\* window that float64 holds exactly.
C34_CountIsChecksInWindow ==
    \A p \in Procs :
        (/\ call[p].pc = "reply"
         /\ AllAnswered(p)
         /\ window % Ulp = 0
         /\ call[p].now % Ulp = 0
         /\ \A i \in Returns :
              Ok(i) /\ hist[i].now % Ulp = 0 /\ hist[i].now < call[p].now
         /\ \A i, j \in Returns : i < j => hist[i].now < hist[j].now) =>
            call[p].count =
                1 + Cardinality({i \in Returns :
                        call[p].now - window < hist[i].now})

\* C35: with limit <= 0 every check whose store commands were all answered
\* returns without error Allowed = false, Remaining = 0 and RetryAfter =
\* window, and its entry is in the log.
C35_NoLimitDenies ==
    [][\A p \in Procs :
          (limit <= 0 /\ call[p].pc = "reply" /\ AllAnswered(p)
                      /\ call'[p].pc = "idle" /\ ~hist'[Len(hist')].err) =>
              /\ Len(hist') = Len(hist) + 1
              /\ ~hist'[Len(hist')].res.Allowed
              /\ hist'[Len(hist')].res.Remaining = 0
              /\ hist'[Len(hist')].res.RetryAfter = window
              /\ \E e \in zset'[call[p].key] :
                     e.member = FormatFloat(Float64(call[p].now))]_vars

\* C35 witness: with limit 0 a first check on an empty key came back denied
\* and its entry is in the log.
C35_Witness ==
    /\ limit = 0
    /\ faults = 0
    /\ Len(hist) = 1
    /\ Denied(1)
    /\ hist[1].count = 1
    /\ hist[1].res.RetryAfter = window
    /\ zset["X"] # {}

\* C36: RateLimitMiddleware replaces WindowSize = 0 by one minute and
\* MaxRequests = 0 by 100 once, before any request is served, so that the
\* limiter is never called with a zero limit or window; negative values go
\* to the limiter unchanged; every call of the limiter has the key
\* "rate_limit:" + extracted key and the configured limit and window, with
\* which the engine then works.
C36_DefaultsAndKey ==
    /\ [](\A p \in Procs :
            http[p].allowCalls = 1 =>
                LET a == http[p].args IN
                /\ a.limit # 0 /\ a.window # 0
                /\ a.limit = (IF config.MaxRequests = 0 THEN 100
                              ELSE config.MaxRequests)
                /\ a.window = (IF config.WindowSize = 0 THEN Margin
                               ELSE config.WindowSize)
                /\ a.key = "rate_limit:" \o http[p].key
                /\ call[p].pc # "idle" =>
                       call[p].windowStart = call[p].now - a.window)
    /\ [][limit' = limit /\ window' = window /\ config' = config]_vars

\* C36 witness: a middleware built with MaxRequests unset and a negative
\* WindowSize has called the limiter with limit 100 and that window.
C36_Witness ==
    \E p \in Procs :
        /\ http[p].pc = "done"
        /\ http[p].allowCalls = 1
        /\ config.MaxRequests = 0
        /\ config.WindowSize < 0
        /\ http[p].args.limit = 100
        /\ http[p].args.window = config.WindowSize
        /\ http[p].args.key = "rate_limit:X"

====
